---- MODULE Spec2Model ----
(***************************************************************************)
(* Model of scripts/create-extension-icons.py: the icon rasterizer         *)
(* draw_q_icon, the PNG encoder create_png and the driver main.            *)
(*                                                                         *)
(* Three specifications share the variables below:                         *)
(*   SpecDraw  one call draw_q_icon(size), one step per row of the outer   *)
(*             loop, for the supported sizes and a range of small sizes;   *)
(*   SpecPng   one call create_png(width, height, pixels) on inputs drawn  *)
(*             from bounded sets (matching, short, long and non-byte       *)
(*             buffers);                                                   *)
(*   Spec      main(): makedirs, then draw, encode and write for each of   *)
(*             the sizes 16, 48, 128.                                      *)
(***************************************************************************)
EXTENDS Integers, Sequences, FiniteSets, TLC

VARIABLES
    pc,         \* position of the running function
    size,       \* draw_q_icon / main: the size being processed
    y,          \* draw_q_icon: the outer loop variable (rows done so far)
    pixels,     \* the pixel buffer (flat sequence of channel values)
    width,      \* create_png argument
    height,     \* create_png argument
    png_data,   \* outcome of create_png
    sizeIdx,    \* main: index into sizes of the current iteration
    dirExists,  \* file system: does icons_dir exist
    files,      \* file system: content of the files in icons_dir, by name
    fsLog       \* file system: the directory creation and the names of the
                \* files written, in order

vars == <<pc, size, y, pixels, width, height, png_data, sizeIdx, dirExists,
          files, fsLog>>

----------------------------------------------------------------------------
(* Bounds of the model *)

\* draw_q_icon is also exercised on every size 1..MaxSize
MaxSize == 12
\* create_png is exercised on every width and height 0..MaxDim
MaxDim == 2
\* a buffer handed to create_png is up to MaxExtra values longer than 4*w*h
MaxExtra == 2

----------------------------------------------------------------------------
(* Generic helpers *)

Min(a, b) == IF a < b THEN a ELSE b

\* t*t < k for naturals t and k, computed on the halves of t so that the
\* product stays within 32 bits
SqLess(t, k) ==
    LET q == t \div 2
        r == t % 2
    IN  k - r >= 1 /\ q * q + q * r <= (k - r - 1) \div 4

----------------------------------------------------------------------------
(* draw_q_icon *)

blue == <<13, 110, 253, 255>>
white == <<255, 255, 255, 255>>
transparent == <<0, 0, 0, 0>>

(***************************************************************************)
(* The geometry is computed by the code in floating point.  Every          *)
(* comparison is between quantities that are rational (or a rational       *)
(* multiple of sqrt(2)) in x, y and size, so each is stated here exactly   *)
(* on integers after scaling and squaring.  With dx = x - size/2 + 0.5:    *)
(*    dist = sqrt(Dist4(size, x, y)) / 2.                                  *)
(***************************************************************************)
Dist4(sz, x, yy) ==
    (2 * x - sz + 1) * (2 * x - sz + 1) + (2 * yy - sz + 1) * (2 * yy - sz + 1)

\* InsideCircle with the radius taken as size * 0.5
InsideCircleHalf(sz, x, yy) == Dist4(sz, x, yy) <= sz * sz

\* dist <= circle_radius, circle_radius = size * 0.48:  D/4 <= (12/25)^2 size^2
InsideCircle(sz, x, yy) == 625 * Dist4(sz, x, yy) <= 576 * sz * sz

\* InQBody without the lower bound q_inner_radius < dist
InQBodyNoInner(sz, x, yy) == 15625 * Dist4(sz, x, yy) < 3249 * sz * sz

\* q_inner_radius < dist < q_outer_radius, with
\* q_inner_radius = 0.6*size*0.38 - 0.6*size*0.15 = (69/500) size and
\* q_outer_radius = 0.6*size*0.38 = (57/250) size
InQBody(sz, x, yy) ==
    /\ 62500 * Dist4(sz, x, yy) > 4761 * sz * sz
    /\ 15625 * Dist4(sz, x, yy) < 3249 * sz * sz

\* tail_start_x = tail_start_y = center + q_inner_radius * 0.5 = 0.569 size
\* rel_x = x - tail_start_x + 0.5, so rel_x >= 0 iff 500 (2x + 1) >= 569 size
\* diag_dist < tail_length (0.21 size):   500 (rel_x + rel_y) < 105 sqrt2 size
\* perp_dist < tail_width / 2 (0.054 size):  |x - y| / sqrt2 < (27/500) size
OnTail(sz, x, yy) ==
    /\ 500 * (2 * x + 1) >= 569 * sz
    /\ 500 * (2 * yy + 1) >= 569 * sz
    /\ SqLess(500 * (x + yy + 1) - 569 * sz, 22050 * sz * sz)
    /\ 125000 * (x - yy) * (x - yy) < 729 * sz * sz

\* the colour chosen by one iteration of the inner loop
PixelColor(sz, x, yy) ==
    IF InsideCircle(sz, x, yy)
    THEN IF InQBody(sz, x, yy) \/ OnTail(sz, x, yy) THEN white ELSE blue
    ELSE transparent

\* the inner loop "for x in range(size)" over x in lo..hi: the buffer is
\* extended by one colour per x, left to right (the range is split in two
\* halves only to keep the evaluation shallow)
RECURSIVE RowRange(_, _, _, _)
RowRange(sz, yy, lo, hi) ==
    IF lo > hi THEN <<>>
    ELSE IF lo = hi THEN PixelColor(sz, lo, yy)
    ELSE LET mid == (lo + hi) \div 2
         IN  RowRange(sz, yy, lo, mid) \o RowRange(sz, yy, mid + 1, hi)

\* DrawRowPixels with the inner loop starting at x = 1
DrawRowPixelsFromOne(sz, yy) == RowRange(sz, yy, 1, sz - 1)

DrawRowPixels(sz, yy) == RowRange(sz, yy, 0, sz - 1)

\* the outer loop "for y in range(size)" over y in lo..hi: rows top to bottom
RECURSIVE DrawRange(_, _, _)
DrawRange(sz, lo, hi) ==
    IF lo > hi THEN <<>>
    ELSE IF lo = hi THEN DrawRowPixels(sz, lo)
    ELSE LET mid == (lo + hi) \div 2
         IN  DrawRange(sz, lo, mid) \o DrawRange(sz, mid + 1, hi)

\* the buffer returned by the whole call
draw_q_icon(sz) == DrawRange(sz, 0, sz - 1)

----------------------------------------------------------------------------
(* Bytes and 32-bit words.  A 32-bit word is kept as its four bytes, most   *)
(* significant first, which is also its struct.pack('>I', ...) form.        *)

Byte == 0..255

RECURSIVE XorBits(_, _, _)
XorBits(a, b, k) ==
    IF k = 0 THEN 0
    ELSE ((a + b) % 2) + 2 * XorBits(a \div 2, b \div 2, k - 1)

XorTable == [a \in Byte |-> [b \in Byte |-> XorBits(a, b, 8)]]

XorByte(a, b) == XorTable[a][b]

Xor32(u, v) == <<XorByte(u[1], v[1]), XorByte(u[2], v[2]),
                 XorByte(u[3], v[3]), XorByte(u[4], v[4])>>

Shr1(w) == <<w[1] \div 2,
             (w[1] % 2) * 128 + (w[2] \div 2),
             (w[2] % 2) * 128 + (w[3] \div 2),
             (w[3] % 2) * 128 + (w[4] \div 2)>>

\* struct.pack('>I', n) for 0 <= n < 2^31
PackU32(n) == <<(n \div 16777216) % 256, (n \div 65536) % 256,
                (n \div 256) % 256, n % 256>>

\* the inverse reading, for words below 2^31
UnpackU32(w) == ((w[1] * 256 + w[2]) * 256 + w[3]) * 256 + w[4]

\* python slice s[a:b] of a list (0-based, clamped to the list)
Slice(s, a, b) ==
    IF a >= Min(b, Len(s)) THEN <<>> ELSE SubSeq(s, a + 1, Min(b, Len(s)))

----------------------------------------------------------------------------
(* zlib.crc32: the CRC-32 of PNG and zlib (reflected polynomial EDB88320,   *)
(* initial value and final xor FFFFFFFF), table driven.                     *)

CrcPoly == <<237, 184, 131, 32>>
AllOnes == <<255, 255, 255, 255>>

RECURSIVE CrcShift(_, _)
CrcShift(w, k) ==
    IF k = 0 THEN w
    ELSE CrcShift(IF w[4] % 2 = 1 THEN Xor32(CrcPoly, Shr1(w)) ELSE Shr1(w),
                  k - 1)

CrcTable == [n \in Byte |-> CrcShift(<<0, 0, 0, n>>, 8)]

CrcUpdate(w, b) ==
    Xor32(CrcTable[XorByte(w[4], b)], <<0, w[1], w[2], w[3]>>)

\* the register after the bytes data[lo..hi], starting from w (the range is
\* split in two halves, the left one computed first, only to keep the
\* evaluation shallow)
RECURSIVE CrcRange(_, _, _, _)
CrcRange(w, data, lo, hi) ==
    IF lo > hi THEN w
    ELSE IF lo = hi THEN CrcUpdate(w, data[lo])
    ELSE LET mid == (lo + hi) \div 2
             left == CrcRange(w, data, lo, mid)
         IN  IF Len(left) = 4 THEN CrcRange(left, data, mid + 1, hi) ELSE left

\* zlib.crc32(data) & 0xffffffff, as the four bytes of struct.pack('>I', .)
crc32(data) == Xor32(CrcRange(AllOnes, data, 1, Len(data)), AllOnes)

----------------------------------------------------------------------------
(* zlib.compress / zlib.decompress.  The zlib container is modelled byte    *)
(* for byte: the two header bytes 78 DA that compress(data, 9) writes, a    *)
(* deflate body and the big-endian Adler-32 of the uncompressed data.  The  *)
(* deflate body is written with stored blocks (at most 65535 bytes each),   *)
(* one of the encodings of the data that every inflater accepts; which      *)
(* encoding the library picks is not the script's concern.                  *)

AdlerMod == 65521
MaxStored == 65535

\* <<a, b>> after the bytes data[lo..hi], starting from ab
RECURSIVE AdlerRange(_, _, _, _)
AdlerRange(ab, data, lo, hi) ==
    IF lo > hi THEN ab
    ELSE IF lo = hi
    THEN LET a == (ab[1] + data[lo]) % AdlerMod
         IN  <<a, (ab[2] + a) % AdlerMod>>
    ELSE LET mid == (lo + hi) \div 2
             left == AdlerRange(ab, data, lo, mid)
         IN  IF Len(left) = 2 THEN AdlerRange(left, data, mid + 1, hi) ELSE left

adler32(data) ==
    LET ab == AdlerRange(<<1, 0>>, data, 1, Len(data))
    IN  <<ab[2] \div 256, ab[2] % 256, ab[1] \div 256, ab[1] % 256>>

RECURSIVE StoredBlocks(_, _)
StoredBlocks(data, from) ==
    LET n == Len(data) - from + 1
        take == Min(n, MaxStored)
        final == n <= MaxStored
    IN  <<IF final THEN 1 ELSE 0,
          take % 256, take \div 256, 255 - (take % 256), 255 - (take \div 256)>>
        \o SubSeq(data, from, from + take - 1)
        \o (IF final THEN <<>> ELSE StoredBlocks(data, from + take))

compress(data) == <<120, 218>> \o StoredBlocks(data, 1) \o adler32(data)

\* the stored blocks starting at z[pos]: the data they hold and the position
\* after the final block; ok is FALSE on a malformed body
RECURSIVE InflateFrom(_, _)
InflateFrom(z, pos) ==
    IF pos + 4 > Len(z) \/ z[pos] \notin {0, 1}
    THEN [ok |-> FALSE, data |-> <<>>, next |-> pos]
    ELSE LET len == z[pos + 1] + 256 * z[pos + 2]
             nlen == z[pos + 3] + 256 * z[pos + 4]
         IN  IF len + nlen # 65535 \/ pos + 4 + len > Len(z)
             THEN [ok |-> FALSE, data |-> <<>>, next |-> pos]
             ELSE IF z[pos] = 1
             THEN [ok |-> TRUE, data |-> SubSeq(z, pos + 5, pos + 4 + len),
                   next |-> pos + 5 + len]
             ELSE LET rest == InflateFrom(z, pos + 5 + len)
                  IN  [ok |-> rest.ok,
                       data |-> SubSeq(z, pos + 5, pos + 4 + len) \o rest.data,
                       next |-> rest.next]

decompress(z) ==
    IF Len(z) < 2 \/ z[1] % 16 # 8 \/ (z[1] * 256 + z[2]) % 31 # 0
       \/ (z[2] \div 32) % 2 # 0
    THEN [ok |-> FALSE, data |-> <<>>]
    ELSE LET body == InflateFrom(z, 3)
         IN  IF body.ok /\ body.next + 3 = Len(z)
                /\ SubSeq(z, body.next, body.next + 3) = adler32(body.data)
             THEN [ok |-> TRUE, data |-> body.data]
             ELSE [ok |-> FALSE, data |-> <<>>]

----------------------------------------------------------------------------
(* create_png *)

signature == <<137, 80, 78, 71, 13, 10, 26, 10>>

IHDR == <<73, 72, 68, 82>>
IDAT == <<73, 68, 65, 84>>
IEND == <<73, 69, 78, 68>>

\* png_chunk with the checksum taken over the payload alone
png_chunkCrcOfData(chunk_type, data) ==
    PackU32(Len(data)) \o chunk_type \o data \o crc32(data)

png_chunk(chunk_type, data) ==
    LET chunk == chunk_type \o data
    IN  PackU32(Len(data)) \o chunk \o crc32(chunk)

\* ihdr_data with height packed before width
ihdr_dataSwapped(w, h) == PackU32(h) \o PackU32(w) \o <<8, 6, 0, 0, 0>>

\* struct.pack('>IIBBBBB', width, height, 8, 6, 0, 0, 0)
ihdr_data(w, h) == PackU32(w) \o PackU32(h) \o <<8, 6, 0, 0, 0>>

\* the inner loop "for x in range(width)" over x in lo..hi of row yy: the
\* bytes of the slices pixels[idx:idx+4], idx = (yy * width + x) * 4
RECURSIVE ScanRange(_, _, _, _, _)
ScanRange(w, px, yy, lo, hi) ==
    IF lo > hi THEN <<>>
    ELSE IF lo = hi
    THEN Slice(px, (yy * w + lo) * 4, (yy * w + lo) * 4 + 4)
    ELSE LET mid == (lo + hi) \div 2
         IN  ScanRange(w, px, yy, lo, mid) \o ScanRange(w, px, yy, mid + 1, hi)

\* ScanLine reading row 0 of the buffer for every row
ScanLineRowZero(w, px, yy) == <<0>> \o ScanRange(w, px, 0, 0, w - 1)

\* ScanLine with the filter type written after the row
ScanLineFilterLast(w, px, yy) == ScanRange(w, px, yy, 0, w - 1) \o <<0>>

\* one iteration of the outer loop: the filter type, then the row
ScanLine(w, px, yy) == <<0>> \o ScanRange(w, px, yy, 0, w - 1)

\* the outer loop "for y in range(height)" over y in lo..hi
RECURSIVE RawRange(_, _, _, _)
RawRange(w, px, lo, hi) ==
    IF lo > hi THEN <<>>
    ELSE IF lo = hi THEN ScanLine(w, px, lo)
    ELSE LET mid == (lo + hi) \div 2
         IN  RawRange(w, px, lo, mid) \o RawRange(w, px, mid + 1, hi)

raw_data(w, h, px) == RawRange(w, px, 0, h - 1)

\* bytes(...) raises ValueError on a value outside range(256); the slices
\* read exactly the indices below 4 * width * height that the list has
BytesRaises(w, h, px) ==
    \E i \in 1..Min(Len(px), 4 * w * h) : px[i] \notin Byte

Returned(bytes) == [ok |-> TRUE, error |-> "", data |-> bytes]
Raised(err) == [ok |-> FALSE, error |-> err, data |-> <<>>]

\* create_png returning the image data chunk ahead of the header chunk
create_pngIdatFirst(w, h, px) ==
    IF BytesRaises(w, h, px) THEN Raised("ValueError")
    ELSE Returned(signature \o png_chunk(IDAT, compress(raw_data(w, h, px)))
                  \o png_chunk(IHDR, ihdr_data(w, h)) \o png_chunk(IEND, <<>>))

\* the outcome of the call create_png(width, height, pixels)
create_png(w, h, px) ==
    IF BytesRaises(w, h, px) THEN Raised("ValueError")
    ELSE LET ihdr == png_chunk(IHDR, ihdr_data(w, h))
             compressed == compress(raw_data(w, h, px))
             idat == png_chunk(IDAT, compressed)
             iend == png_chunk(IEND, <<>>)
         IN  Returned(signature \o ihdr \o idat \o iend)

----------------------------------------------------------------------------
(* Reading a PNG byte stream back: the chunk layout and the pixel buffer a  *)
(* decoder obtains from it.  Used by the properties only.                   *)

\* the chunks laid out from b[pos] to the end of b, each read as length,
\* type, payload, checksum; ok is FALSE when the bytes do not divide so
RECURSIVE ReadChunks(_, _)
ReadChunks(b, pos) ==
    IF pos > Len(b) THEN [ok |-> TRUE, chunks |-> <<>>]
    ELSE IF pos + 11 > Len(b) \/ b[pos] >= 128
    THEN [ok |-> FALSE, chunks |-> <<>>]
    ELSE LET len == UnpackU32(SubSeq(b, pos, pos + 3))
         IN  IF pos + 11 + len > Len(b)
             THEN [ok |-> FALSE, chunks |-> <<>>]
             ELSE LET rest == ReadChunks(b, pos + 12 + len)
                      this == [length |-> len,
                               type |-> SubSeq(b, pos + 4, pos + 7),
                               data |-> SubSeq(b, pos + 8, pos + 7 + len),
                               crc |-> SubSeq(b, pos + 8 + len, pos + 11 + len)]
                  IN  [ok |-> rest.ok, chunks |-> <<this>> \o rest.chunks]

HasSignature(b) == Len(b) >= 8 /\ SubSeq(b, 1, 8) = signature

\* the chunks after the signature
ChunksOf(b) == ReadChunks(b, 9)

ChunkTypes(b) == [i \in 1..Len(ChunksOf(b).chunks) |-> ChunksOf(b).chunks[i].type]

\* the filter byte of every scanline of raw is 0
RECURSIVE UnfilterRange(_, _, _, _)
UnfilterRange(raw, w, lo, hi) ==
    IF lo > hi THEN <<>>
    ELSE IF lo = hi
    THEN SubSeq(raw, lo * (1 + 4 * w) + 2, (lo + 1) * (1 + 4 * w))
    ELSE LET mid == (lo + hi) \div 2
         IN  UnfilterRange(raw, w, lo, mid) \o UnfilterRange(raw, w, mid + 1, hi)

NoDecode == [ok |-> FALSE, width |-> 0, height |-> 0, pixels |-> <<>>]

\* what a PNG decoder reads from b: signature, the three chunks with valid
\* checksums, an 8-bit RGBA non-interlaced header, the inflated IDAT payload
\* cut into height scanlines of filter type 0 and 4 * width bytes each
DecodePng(b) ==
    IF ~HasSignature(b) \/ ~ChunksOf(b).ok \/ ChunkTypes(b) # <<IHDR, IDAT, IEND>>
    THEN NoDecode
    ELSE LET cs == ChunksOf(b).chunks
             hd == cs[1].data
         IN  IF \/ \E i \in 1..3 : cs[i].crc # crc32(cs[i].type \o cs[i].data)
                \/ Len(hd) # 13
                \/ SubSeq(hd, 9, 13) # <<8, 6, 0, 0, 0>>
                \/ hd[1] >= 128 \/ hd[5] >= 128
                \/ Len(cs[3].data) # 0
             THEN NoDecode
             ELSE LET w == UnpackU32(SubSeq(hd, 1, 4))
                      h == UnpackU32(SubSeq(hd, 5, 8))
                      z == decompress(cs[2].data)
                  IN  IF \/ ~z.ok
                         \/ Len(z.data) # h * (1 + 4 * w)
                         \/ \E r \in 0..(h - 1) : z.data[r * (1 + 4 * w) + 1] # 0
                      THEN NoDecode
                      ELSE [ok |-> TRUE, width |-> w, height |-> h,
                            pixels |-> UnfilterRange(z.data, w, 0, h - 1)]

----------------------------------------------------------------------------
(* State shared by the three specifications *)

sizes == <<16, 48, 128>>

SupportedSizes == {sizes[i] : i \in 1..Len(sizes)}

\* IconName without the size
IconNameNoSize(sz) == "icon" \o ".png"

\* f'icon{size}.png'
IconName(sz) == "icon" \o ToString(sz) \o ".png"

NoFiles == [n \in {} |-> <<>>]
NoPng == Raised("none")

\* a file left in icons_dir by something else before the run
StaleContent == <<115, 116, 97, 108, 101>>

----------------------------------------------------------------------------
(* draw_q_icon as a process: one step per iteration of the outer loop *)

DrawRow ==
    /\ pc = "draw"
    /\ y < size
    /\ pixels' = pixels \o DrawRowPixels(size, y)
    /\ y' = y + 1
    /\ UNCHANGED <<pc, size, width, height, png_data, sizeIdx, dirExists,
                   files, fsLog>>

DrawReturn ==
    /\ pc = "draw"
    /\ y >= size
    /\ pc' = "drawn"
    /\ UNCHANGED <<size, y, pixels, width, height, png_data, sizeIdx,
                   dirExists, files, fsLog>>

DrawSizes == (1..MaxSize) \cup SupportedSizes

InitDraw ==
    /\ pc = "draw"
    /\ size \in DrawSizes
    /\ y = 0
    /\ pixels = <<>>
    /\ width = 0 /\ height = 0 /\ png_data = NoPng
    /\ sizeIdx = 0 /\ dirExists = FALSE /\ files = NoFiles /\ fsLog = <<>>

NextDraw == DrawRow \/ DrawReturn

SpecDraw == InitDraw /\ [][NextDraw]_vars

----------------------------------------------------------------------------
(* create_png as a call on drawn inputs *)

Seeds == {0, 200}
NonByte == 256

\* a buffer of len values; the value at index bad (if any) is not a byte
GenBuffer(len, seed, bad) ==
    [i \in 1..len |-> IF i = bad THEN NonByte ELSE (seed + 37 * i) % 256]

Buffers(w, h) ==
    UNION {{GenBuffer(len, seed, bad) : seed \in Seeds, bad \in 0..len} :
           len \in 0..(4 * w * h + MaxExtra)}

InitPng ==
    /\ pc = "call"
    /\ \/ /\ width \in 0..MaxDim
          /\ height \in 0..MaxDim
          /\ pixels \in Buffers(width, height)
       \/ /\ width = sizes[1]
          /\ height = sizes[1]
          /\ pixels = draw_q_icon(sizes[1])
    /\ png_data = NoPng
    /\ size = 0 /\ y = 0
    /\ sizeIdx = 0 /\ dirExists = FALSE /\ files = NoFiles /\ fsLog = <<>>

CreatePngReturn ==
    /\ pc = "call"
    /\ create_png(width, height, pixels).ok
    /\ png_data' = create_png(width, height, pixels)
    /\ pc' = "returned"
    /\ UNCHANGED <<size, y, pixels, width, height, sizeIdx, dirExists, files,
                   fsLog>>

CreatePngRaise ==
    /\ pc = "call"
    /\ ~create_png(width, height, pixels).ok
    /\ png_data' = create_png(width, height, pixels)
    /\ pc' = "raised"
    /\ UNCHANGED <<size, y, pixels, width, height, sizeIdx, dirExists, files,
                   fsLog>>

NextPng == CreatePngReturn \/ CreatePngRaise

SpecPng == InitPng /\ [][NextPng]_vars

----------------------------------------------------------------------------
(* main *)

\* the directory is absent, or present and empty, or present with an old
\* icon16.png in it
Init ==
    /\ pc = "main"
    /\ \/ dirExists = FALSE /\ files = NoFiles
       \/ dirExists = TRUE /\ files = NoFiles
       \/ dirExists = TRUE /\ files = [n \in {IconName(sizes[1])} |-> StaleContent]
    /\ fsLog = <<>>
    /\ sizeIdx = 0 /\ size = 0 /\ y = 0 /\ pixels = <<>>
    /\ width = 0 /\ height = 0 /\ png_data = NoPng

\* os.makedirs(icons_dir, exist_ok=True): creates the directory unless it
\* is there already
MakeDirs ==
    /\ pc = "main"
    /\ dirExists' = TRUE
    /\ fsLog' = IF dirExists THEN fsLog ELSE Append(fsLog, "mkdir")
    /\ sizeIdx' = 1
    /\ pc' = "loop"
    /\ UNCHANGED <<size, y, pixels, width, height, png_data, files>>

\* for size in sizes: pixels = draw_q_icon(size)  (the call)
DrawCall ==
    /\ pc = "loop"
    /\ sizeIdx <= Len(sizes)
    /\ size' = sizes[sizeIdx]
    /\ pixels' = <<>>
    /\ y' = 0
    /\ pc' = "draw"
    /\ UNCHANGED <<width, height, png_data, sizeIdx, dirExists, files, fsLog>>

\* png_data = create_png(size, size, pixels)
Encode ==
    /\ pc = "drawn"
    /\ width' = size
    /\ height' = size
    /\ png_data' = create_png(size, size, pixels)
    /\ pc' = IF create_png(size, size, pixels).ok THEN "encoded" ELSE "failed"
    /\ UNCHANGED <<size, y, pixels, sizeIdx, dirExists, files, fsLog>>

\* with open(output_path, 'wb') as f: f.write(png_data)
\* open fails when the directory is missing
WriteFile ==
    /\ pc = "encoded"
    /\ IF dirExists
       THEN /\ files' = [n \in DOMAIN files \cup {IconName(size)} |->
                            IF n = IconName(size) THEN png_data.data
                            ELSE files[n]]
            /\ fsLog' = Append(fsLog, IconName(size))
            /\ sizeIdx' = sizeIdx + 1
            /\ pc' = "loop"
       ELSE /\ pc' = "failed"
            /\ UNCHANGED <<files, fsLog, sizeIdx>>
    /\ UNCHANGED <<size, y, pixels, width, height, png_data, dirExists>>

\* the loop is exhausted and main returns
MainReturn ==
    /\ pc = "loop"
    /\ sizeIdx > Len(sizes)
    /\ pc' = "done"
    /\ UNCHANGED <<size, y, pixels, width, height, png_data, sizeIdx,
                   dirExists, files, fsLog>>

Next ==
    \/ MakeDirs
    \/ DrawCall
    \/ DrawRow
    \/ DrawReturn
    \/ Encode
    \/ WriteFile
    \/ MainReturn

Spec == Init /\ [][Next]_vars

----------------------------------------------------------------------------
(* Properties of draw_q_icon, checked under SpecDraw *)

\* the colour group stored in the buffer for the coordinate (x, y)
PixelAt(buf, sz, x, yy) == SubSeq(buf, 4 * (yy * sz + x) + 1, 4 * (yy * sz + x) + 4)

Coords(sz) == (0..(sz - 1)) \X (0..(sz - 1))

\* C1: for every supported size N, the buffer returned by draw_q_icon(N)
\* holds exactly 4*N*N channel values, the group at offset 4*(y*N + x) being
\* the colour chosen for (x, y) (row-major order), and every value is an
\* integer in 0..255.
C1_BufferShape ==
    (pc = "drawn" /\ size \in SupportedSizes) =>
        /\ Len(pixels) = 4 * size * size
        /\ \A c \in Coords(size) :
              PixelAt(pixels, size, c[1], c[2]) = PixelColor(size, c[1], c[2])
        /\ \A i \in 1..Len(pixels) : pixels[i] \in 0..255

C1_Witness ==
    /\ pc = "drawn"
    /\ size = 16
    /\ Len(pixels) = 1024
    /\ PixelAt(pixels, 16, 0, 0) = transparent
    /\ PixelAt(pixels, 16, 8, 8) = blue
    /\ PixelAt(pixels, 16, 5, 9) = white

\* the sample point of (x, y) lies strictly outside the outer circle:
\* dist > 0.48 * N
StrictlyOutside(sz, x, yy) == 625 * Dist4(sz, x, yy) > 576 * sz * sz

\* the sample point of (x, y) passes the tail test of the code
TailTest(sz, x, yy) ==
    /\ 1000 * x + 500 >= 569 * sz
    /\ 1000 * yy + 500 >= 569 * sz
    /\ SqLess(500 * (x + yy + 1) - 569 * sz, 22050 * sz * sz)
    /\ 125000 * (x - yy) * (x - yy) < 729 * sz * sz

\* C2: in the buffer returned by draw_q_icon(N), every pixel whose sample
\* point lies strictly outside the outer circle (radius 0.48*N) is
\* transparent, so blue and white occur only within distance 0.48*N, also
\* for pixels that pass the tail test.
C2_OutsideTransparent ==
    pc = "drawn" =>
        \A c \in Coords(size) :
            /\ StrictlyOutside(size, c[1], c[2]) =>
                   PixelAt(pixels, size, c[1], c[2]) = transparent
            /\ PixelAt(pixels, size, c[1], c[2]) \in {blue, white} =>
                   ~StrictlyOutside(size, c[1], c[2])
            /\ (TailTest(size, c[1], c[2]) /\ StrictlyOutside(size, c[1], c[2])) =>
                   PixelAt(pixels, size, c[1], c[2]) # white

C2_Witness ==
    /\ pc = "drawn"
    /\ size = 48
    /\ StrictlyOutside(48, 0, 0) /\ PixelAt(pixels, 48, 0, 0) = transparent
    /\ \E c \in Coords(48) : PixelAt(pixels, 48, c[1], c[2]) = white
    /\ \E c \in Coords(48) : PixelAt(pixels, 48, c[1], c[2]) = blue

\* the sample point of (x, y) lies strictly inside the inner glyph radius
\* q_inner_radius = 0.6*N*0.38 - 0.6*N*0.15 = 0.138*N
StrictlyInsideInner(sz, x, yy) == 62500 * Dist4(sz, x, yy) < 4761 * sz * sz

\* C3 as claimed: for N in {16, 48, 128}, every pixel strictly inside the
\* inner glyph radius is the fill colour (blue) and never white.
C3_HoleIsFill ==
    (pc = "drawn" /\ size \in SupportedSizes) =>
        \A c \in Coords(size) :
            StrictlyInsideInner(size, c[1], c[2]) =>
                PixelAt(pixels, size, c[1], c[2]) = blue

\* C3 amended: for N in {16, 48, 128}, every pixel strictly inside the inner
\* glyph radius is the fill colour (blue) unless it passes the tail test, in
\* which case it is the glyph colour (white); it is never transparent.
C3_HoleIsFillOrTail ==
    (pc = "drawn" /\ size \in SupportedSizes) =>
        \A c \in Coords(size) :
            StrictlyInsideInner(size, c[1], c[2]) =>
                PixelAt(pixels, size, c[1], c[2]) =
                    IF TailTest(size, c[1], c[2]) THEN white ELSE blue

C3_Witness ==
    /\ pc = "drawn"
    /\ size = 16
    /\ StrictlyInsideInner(16, 9, 9) /\ TailTest(16, 9, 9)
    /\ PixelAt(pixels, 16, 9, 9) = white
    /\ StrictlyInsideInner(16, 8, 8) /\ ~TailTest(16, 8, 8)
    /\ PixelAt(pixels, 16, 8, 8) = blue

----------------------------------------------------------------------------
(* Properties of create_png, checked under SpecPng *)

\* the chunks read back from the returned stream
OutChunks == ChunksOf(png_data.data).chunks

\* C4: the stream returned by create_png begins with the 8-byte signature
\* 89 50 4E 47 0D 0A 1A 0A, followed by exactly the three chunks IHDR, IDAT,
\* IEND, once each and in that order, with no bytes after IEND.
C4_SignatureAndChunkOrder ==
    pc = "returned" =>
        /\ Len(png_data.data) >= 8
        /\ SubSeq(png_data.data, 1, 8) = <<137, 80, 78, 71, 13, 10, 26, 10>>
        /\ ChunksOf(png_data.data).ok
        /\ ChunkTypes(png_data.data) =
               <<<<73, 72, 68, 82>>, <<73, 68, 65, 84>>, <<73, 69, 78, 68>>>>

C4_Witness ==
    /\ pc = "returned"
    /\ width = 2 /\ height = 1 /\ Len(pixels) = 8
    /\ Len(OutChunks) = 3
    /\ OutChunks[3].type = IEND

\* the bytes a chunk with the given fields occupies
ChunkBytes(c) == PackU32(c.length) \o c.type \o c.data \o c.crc

\* C5: every chunk of the returned stream (IHDR, IDAT and the empty IEND) is
\* a 4-byte big-endian length equal to the payload length alone, the 4-byte
\* type, the payload, and a 4-byte big-endian checksum equal to the CRC-32
\* of type + payload; the three payloads are the header, the compressed
\* scanlines and nothing.
C5_ChunkLayout ==
    pc = "returned" =>
        /\ ChunksOf(png_data.data).ok
        /\ Len(OutChunks) = 3
        /\ png_data.data = signature \o ChunkBytes(OutChunks[1])
                             \o ChunkBytes(OutChunks[2]) \o ChunkBytes(OutChunks[3])
        /\ \A i \in 1..3 :
              /\ OutChunks[i].length = Len(OutChunks[i].data)
              /\ Len(OutChunks[i].type) = 4
              /\ OutChunks[i].crc = crc32(OutChunks[i].type \o OutChunks[i].data)
        /\ Len(OutChunks[1].data) = 13
        /\ decompress(OutChunks[2].data).ok
        /\ OutChunks[3].data = <<>>
        /\ OutChunks[3].crc = <<174, 66, 96, 130>>

C5_Witness ==
    /\ pc = "returned"
    /\ width = 1 /\ height = 1 /\ pixels = <<37, 74, 111, 148>>
    /\ OutChunks[1].crc = <<31, 21, 196, 137>>
    /\ OutChunks[2].type = IDAT
    /\ OutChunks[3].length = 0

\* C6: for a buffer of exactly 4*width*height channel values, decoding the
\* stream returned by create_png (checking the chunks, inflating the IDAT
\* payload, stripping each row's filter byte, reading 4*width bytes per row)
\* gives back width, height and a buffer identical to the input.
C6_RoundTrip ==
    (pc = "returned" /\ Len(pixels) = 4 * width * height) =>
        /\ DecodePng(png_data.data).ok
        /\ DecodePng(png_data.data).width = width
        /\ DecodePng(png_data.data).height = height
        /\ DecodePng(png_data.data).pixels = pixels

C6_Witness ==
    /\ pc = "returned"
    /\ width = 16 /\ height = 16
    /\ Len(pixels) = 1024
    /\ PixelAt(pixels, 16, 9, 9) = white
    /\ DecodePng(png_data.data).ok
    /\ DecodePng(png_data.data).pixels = pixels

\* C8 as claimed: a call whose buffer length differs from 4*width*height
\* (shorter or longer) ends in an error and returns no byte stream.
C8_RejectsMismatch ==
    (pc \in {"returned", "raised"} /\ Len(pixels) # 4 * width * height) =>
        (pc = "raised" /\ ~png_data.ok)

\* C9: the IHDR payload of the returned stream is exactly 13 bytes: width
\* and height as 4-byte big-endian unsigned integers equal to the
\* arguments, then bit depth 8, colour type 6, compression 0, filter 0,
\* interlace 0.
C9_IhdrPayload ==
    pc = "returned" =>
        /\ Len(OutChunks) >= 1
        /\ OutChunks[1].type = <<73, 72, 68, 82>>
        /\ Len(OutChunks[1].data) = 13
        /\ UnpackU32(SubSeq(OutChunks[1].data, 1, 4)) = width
        /\ UnpackU32(SubSeq(OutChunks[1].data, 5, 8)) = height
        /\ SubSeq(OutChunks[1].data, 9, 13) = <<8, 6, 0, 0, 0>>

C9_Witness ==
    /\ pc = "returned"
    /\ width = 1 /\ height = 2
    /\ OutChunks[1].data = <<0, 0, 0, 1, 0, 0, 0, 2, 8, 6, 0, 0, 0>>

\* the scanline data the returned stream carries, before compression
OutRaw == decompress(OutChunks[2].data).data

\* C10: for a buffer of exactly 4*width*height channel values, the raw
\* scanline data has length height*(1 + 4*width); for every row y the byte
\* at offset y*(1 + 4*width) is the filter tag 0 and the next 4*width bytes
\* are pixels[4*y*width .. 4*(y+1)*width - 1], unchanged and in order.
C10_Scanlines ==
    (pc = "returned" /\ Len(pixels) = 4 * width * height) =>
        /\ OutRaw = raw_data(width, height, pixels)
        /\ Len(OutRaw) = height * (1 + 4 * width)
        /\ \A r \in 0..(height - 1) :
              /\ OutRaw[r * (1 + 4 * width) + 1] = 0
              /\ \A k \in 1..(4 * width) :
                    OutRaw[r * (1 + 4 * width) + 1 + k] = pixels[4 * r * width + k]

C10_Witness ==
    /\ pc = "returned"
    /\ width = 2 /\ height = 2
    /\ Len(pixels) = 16
    /\ Len(OutRaw) = 18
    /\ OutRaw[10] = 0
    /\ OutRaw[11] = pixels[9]

----------------------------------------------------------------------------
(* Properties of main, checked under Spec *)

ExpectedLog == <<"mkdir", "icon16.png", "icon48.png", "icon128.png">>
ExpectedSizes == <<16, 48, 128>>

\* the run started without the output directory
DirWasAbsent ==
    \/ pc = "main" /\ ~dirExists
    \/ Len(fsLog) >= 1 /\ fsLog[1] = "mkdir"

\* b starts with the PNG signature and an IHDR chunk declaring n x n
DeclaresSquare(b, n) ==
    /\ Len(b) >= 24
    /\ SubSeq(b, 1, 8) = <<137, 80, 78, 71, 13, 10, 26, 10>>
    /\ SubSeq(b, 13, 16) = <<73, 72, 68, 82>>
    /\ UnpackU32(SubSeq(b, 17, 20)) = n
    /\ UnpackU32(SubSeq(b, 21, 24)) = n

\* the encoding of the buffer rasterized for the i-th size
IconBytes(i) ==
    create_png(ExpectedSizes[i], ExpectedSizes[i],
               draw_q_icon(ExpectedSizes[i])).data

\* C7: a run of main that starts without the output directory never fails;
\* it creates the directory first and then writes icon16.png, icon48.png,
\* icon128.png in that order and nothing else, so that exactly these three
\* files exist when it is done; each file written holds the encoding of the
\* buffer rasterized for its own size, starts with the PNG signature and
\* declares IHDR width = height = that size.
C7_MainRun ==
    DirWasAbsent =>
        /\ pc # "failed"
        /\ pc # "main" => dirExists
        /\ Len(fsLog) <= 4
        /\ fsLog = SubSeq(ExpectedLog, 1, Len(fsLog))
        /\ DOMAIN files = {fsLog[i] : i \in 2..Len(fsLog)}
        /\ \A i \in 1..3 :
              Len(fsLog) >= i + 1 =>
                  DeclaresSquare(files[ExpectedLog[i + 1]], ExpectedSizes[i])
        /\ \A i \in 1..3 :
              (pc = "loop" /\ sizeIdx = i + 1) =>
                  files[ExpectedLog[i + 1]] = IconBytes(i)
        /\ pc = "done" =>
              /\ fsLog = ExpectedLog
              /\ \A i \in 1..3 : files[ExpectedLog[i + 1]] = IconBytes(i)

\* the first two files are on disk (the state with all three is reached as
\* well; this one is 16 + 48 rows into the run)
C7_Witness ==
    /\ pc = "loop"
    /\ sizeIdx = 3
    /\ fsLog = <<"mkdir", "icon16.png", "icon48.png">>
    /\ DOMAIN files = {"icon16.png", "icon48.png"}
    /\ DeclaresSquare(files["icon48.png"], 48)
    /\ files["icon16.png"] = IconBytes(1)

====
